---- MODULE Spec2Model ----
(***************************************************************************)
(* Model of the OpenStack runner provisioning core:                        *)
(*   src/src/openstack_cloud/openstack_manager.py                          *)
(*   src/github-runner-manager/src/github_runner_manager/configuration/    *)
(*       base.py                                                           *)
(* Three specifications share the module: SpecLaunch (create_instance      *)
(* under its retry decorator, list_projects), SpecImage (build_image) and  *)
(* SpecConfig (construction of ProxyConfig and SSHDebugConnection).        *)
(***************************************************************************)
EXTENDS Integers, Sequences, FiniteSets, TLC

VARIABLES
    \* ---- cloud connector ----
    conn,           \* outcome of the most recent _create_connection call
    lp_result,      \* outcome of the most recent list_projects call
    \* ---- create_instance under @retry ----
    ci_pc,          \* "idle" | "running" | "done"
    ci_clouds,      \* cloud_config["clouds"] keys of the call, in order
    ci_remain,      \* retry: remaining tries
    ci_delay,       \* retry: current delay
    ci_tries,       \* number of executions of the function body
    ci_log,         \* create_server requests of the call, with their outcome
    ci_sleeps,      \* delays slept by the retry loop, in order
    ci_result,      \* "none" | "ok" | the exception that reached the caller
    ci_config,      \* the InstanceConfig object the caller passed in
    ci_config0,     \* the value that object had when the call was made
    ci_servers,     \* servers the cloud created for requests of the call
    \* ---- build_image and the cloud's image store ----
    store,          \* images held by the cloud: records [id, name]
    next_id,        \* identifier the cloud assigns to the next image
    builds,         \* number of build_image calls started
    bi,             \* per caller: the state of its build_image call
    \* ---- configuration model ----
    proxy_last,     \* the most recent ProxyConfig(...) construction
    aproxy,         \* the most recent read of ProxyConfig.aproxy_address
    ssh_last,       \* the most recent SSHDebugConnection(...) construction
    \* ---- create_instance_config and the registration-token issuer ----
    issued,         \* number of registration tokens the issuer has handed out
    cfg_calls,      \* number of create_instance_config calls started
    cic,            \* per caller: the state of its create_instance_config call
    configs,        \* the InstanceConfig values returned so far
    \* ---- command and payload composition ----
    out             \* what the most recent composition call returned

launchVars == <<conn, lp_result, ci_pc, ci_clouds, ci_remain,
                ci_delay, ci_tries, ci_log, ci_sleeps, ci_result,
                ci_config, ci_config0, ci_servers>>

imageVars == <<store, next_id, builds, bi>>

configVars == <<proxy_last, aproxy, ssh_last>>

instanceConfigVars == <<issued, cfg_calls, cic, configs>>

composeVars == <<out>>

vars == <<launchVars, imageVars, configVars, instanceConfigVars, composeVars>>

----------------------------------------------------------------------------
(* Bounds *)

MaxClouds == 2      \* clouds named in one clouds.yaml document
NumBuilders == 2    \* callers of build_image
MaxBuilds == 2      \* build_image calls in one behaviour
NumPreexisting == 2 \* images named IMAGE_NAME the store may start with
NumCallers == 2     \* callers of create_instance_config
MaxConfigs == 3     \* create_instance_config calls in one behaviour
MaxConnections == 2 \* SSH debug connections in one list

(* Program constants: the arguments of the retry decorator *)
Tries == 5
Delay == 5
MaxDelay == 60
BackoffOmitted == 2 - 1   \* variant: no backoff, the delay stays constant
Backoff == 2

----------------------------------------------------------------------------
(* Cloud credential documents: cloud_config["clouds"] is a dict, so its   *)
(* keys are distinct and keep their insertion order.                       *)

CloudNames == 1..MaxClouds
NoCloud == MaxClouds + 1   \* stands for "no cloud selected"

CloudConfigs ==
    {s \in UNION {[1..n -> CloudNames] : n \in 0..MaxClouds} :
        \A i, j \in DOMAIN s : i # j => s[i] # s[j]}

(* What a cloud API call can do: return, raise an SDK exception, or raise *)
(* keystoneauth1's Unauthorized (which is not an OpenStackCloudException). *)
CloudOutcomes == {"ok", "OpenStackCloudException", "Unauthorized"}

Min(a, b) == IF a < b THEN a ELSE b

----------------------------------------------------------------------------
(* _create_connection: clouds[0] of an empty key list raises IndexError;   *)
(* otherwise openstack.connect is called with the first name.              *)

create_connection(clouds) ==
    IF Len(clouds) = 0
    THEN [clouds |-> clouds, kind |-> "IndexError", cloud |-> NoCloud,
          warned |-> Len(clouds) > 1, connect_called |-> FALSE]
    ELSE [clouds |-> clouds, kind |-> "Connection", cloud |-> clouds[1],
          warned |-> Len(clouds) > 1, connect_called |-> TRUE]

NoConn == [clouds |-> <<>>, kind |-> "none", cloud |-> NoCloud,
           warned |-> FALSE, connect_called |-> FALSE]

(* list_projects: only Unauthorized is translated. *)
list_projects_result(c, outcome) ==
    IF c.kind # "Connection" THEN c.kind
    ELSE CASE outcome = "ok" -> "ok"
           [] outcome = "Unauthorized" -> "OpenStackUnauthorizedError"
           [] OTHER -> outcome

list_projects(clouds, outcome) ==
    LET c == create_connection(clouds) IN
    /\ conn' = c
    /\ lp_result' = list_projects_result(c, outcome)
    /\ UNCHANGED <<ci_pc, ci_clouds, ci_remain, ci_delay, ci_tries, ci_log,
                   ci_sleeps, ci_result, ci_config, ci_config0, ci_servers>>

----------------------------------------------------------------------------
(* create_instance: one execution of the function body.  The try block     *)
(* catches OpenStackCloudException only.                                   *)

(* Variant: the cloud exception is logged and swallowed. *)
create_instance_exc_swallowed(c, outcome) ==
    IF c.kind # "Connection" THEN c.kind
    ELSE CASE outcome = "ok" -> "none"
           [] outcome = "OpenStackCloudException" -> "none"
           [] OTHER -> outcome

create_instance_exc(c, outcome) ==
    IF c.kind # "Connection" THEN c.kind
    ELSE CASE outcome = "ok" -> "none"
           [] outcome = "OpenStackCloudException" -> "InstanceLaunchError"
           [] OTHER -> outcome

(* The retry decorator: tries=5, delay=5, max_delay=60, backoff=2, no      *)
(* exception filter, so every exception of the body counts as a failure.   *)
retry_next_delay(d) == Min(d * Backoff, MaxDelay)

(* What the decorator does when the body raised with `remain` tries left  *)
(* and `delay` as the current delay: give up and re-raise when no try is  *)
(* left, else sleep for the current delay and lengthen it.                 *)
retry_on_exception(remain, delay) ==
    [remain |-> remain - 1,
     reraise |-> remain - 1 = 0,
     delay |-> IF remain - 1 = 0 THEN delay ELSE retry_next_delay(delay)]

----------------------------------------------------------------------------
(* build_image *)

IMAGE_NAME == "jammy"
OtherImageName == "focal"

Builders == 1..NumBuilders
\* the caller of the one-after-another specification
SequentialCaller == CHOOSE p \in Builders : \A q \in Builders : p <= q

(* Architectures a caller may ask for; "arm" is one the platform offers   *)
(* a runner for and _get_supported_runner_arch does not know.             *)
Archs == {"x64", "arm64", "arm"}

(* Images the store may hold before the first call. *)
PreexistingImages ==
    {[id |-> i, name |-> IMAGE_NAME] : i \in 1..NumPreexisting}
        \cup {[id |-> NumPreexisting + 1, name |-> OtherImageName]}

(* _get_supported_runner_arch: "none" stands for the raise of             *)
(* UnsupportedArchitectureError.                                          *)
get_supported_runner_arch(arch) ==
    CASE arch = "x64" -> "amd64"
      [] arch = "arm64" -> "arm64"
      [] OTHER -> "none"

(* Variant: a single-image lookup in place of the search. *)
search_images_single(st) ==
    LET found == {im \in st : im.name = IMAGE_NAME} IN
    IF found = {} THEN {}
    ELSE {CHOOSE im \in found : \A other \in found : im.id <= other.id}

(* conn.search_images(name_or_id=IMAGE_NAME): identifiers are cloud-      *)
(* assigned numbers, so only the name can match.                          *)
search_images(st) == {im \in st : im.name = IMAGE_NAME}

(* All orders in which the cloud may list a set of images. *)
Listings(S) ==
    {s \in [1..Cardinality(S) -> S] : \A i, j \in DOMAIN s : i # j => s[i] # s[j]}

(* What conn.delete_image(..., wait=True) can do. *)
DeleteOutcomes == {"True", "False", "OpenStackCloudException", "Unauthorized"}

(* Variant: the return value of delete_image is not looked at. *)
delete_image_exc_unchecked(outcome) ==
    CASE outcome = "True" -> "none"
      [] outcome = "False" -> "none"
      [] outcome = "OpenStackCloudException" -> "OpenstackImageBuildError"
      [] OTHER -> outcome

(* Exception leaving build_image after a delete_image outcome ("none":    *)
(* the loop goes on).  OpenstackImageBuildError is not an                 *)
(* OpenStackCloudException, so the raise of line 253 leaves unchanged.    *)
delete_image_exc(outcome) ==
    CASE outcome = "True" -> "none"
      [] outcome = "False" -> "OpenstackImageBuildError"
      [] outcome = "OpenStackCloudException" -> "OpenstackImageBuildError"
      [] OTHER -> outcome

(* Exception leaving the last try block for a cloud call's exception. *)
upload_block_exc(outcome) ==
    CASE outcome = "ok" -> "none"
      [] outcome = "OpenStackCloudException" -> "OpenstackImageBuildError"
      [] OTHER -> outcome

IdleBuild ==
    [pc |-> "idle", arch |-> "x64", clouds |-> <<>>, app_arch |-> "none",
     image_arch |-> "none", found |-> <<>>, id0 |-> 0,
     script_runs |-> 0, connects |-> 0, searches |-> 0, deletes |-> 0,
     uploads |-> 0, delete_failed |-> FALSE, result |-> "none", ret |-> 0,
     script_failed |-> FALSE, listed |-> {}]

Active(p) == bi[p].pc \notin {"idle", "done"}

Finish(p, exc) == [bi[p] EXCEPT !.pc = "done", !.result = exc]

(* A caller enters build_image. *)
build_image_call(p, arch, clouds) ==
    /\ ~Active(p)
    /\ builds < MaxBuilds
    /\ builds' = builds + 1
    /\ bi' = [bi EXCEPT ![p] = [IdleBuild EXCEPT !.pc = "fetch", !.arch = arch,
                                                  !.clouds = clouds,
                                                  !.id0 = next_id]]
    /\ UNCHANGED <<store, next_id>>

(* Lines 230-233: github_client.get_runner_application(path, arch) returns *)
(* the metadata of the runner for the requested architecture or raises    *)
(* RunnerBinaryError.                                                      *)
get_runner_application(p, found) ==
    /\ bi[p].pc = "fetch"
    /\ bi' = [bi EXCEPT ![p] =
                IF found
                THEN [bi[p] EXCEPT !.pc = "build", !.app_arch = bi[p].arch]
                ELSE Finish(p, "OpenstackImageBuildError")]
    /\ UNCHANGED <<store, next_id, builds>>

(* Variant: the script is run with check_exit=False. *)
execute_command_exc_unchecked(ok) == "none"

(* Lines 235-238: execute_command(..., check_exit=True) raises             *)
(* SubprocessError when the script exits nonzero or cannot be executed.    *)
execute_command_exc(ok) == IF ok THEN "none" ELSE "OpenstackImageBuildError"

(* Lines 235-244: the build script runs, then the architecture of the     *)
(* metadata is validated.                                                  *)
execute_command(p, ok) ==
    LET ran == [bi[p] EXCEPT !.script_runs = @ + 1, !.script_failed = ~ok]
        exc == execute_command_exc(ok)
        image_arch == get_supported_runner_arch(bi[p].app_arch)
    IN
    /\ bi[p].pc = "build"
    /\ bi' = [bi EXCEPT ![p] =
                IF exc # "none" THEN [ran EXCEPT !.pc = "done", !.result = exc]
                ELSE IF image_arch = "none"
                THEN [ran EXCEPT !.pc = "done",
                                 !.result = "OpenstackImageBuildError"]
                ELSE [ran EXCEPT !.pc = "connect", !.image_arch = image_arch]]
    /\ UNCHANGED <<store, next_id, builds>>

(* Lines 247-249: _create_connection, then conn.search_images. *)
connect_and_search(p, outcome, listing) ==
    LET c == create_connection(bi[p].clouds) IN
    /\ bi[p].pc = "connect"
    /\ listing \in Listings(search_images(store))
    /\ bi' = [bi EXCEPT ![p] =
                IF c.kind # "Connection"
                THEN Finish(p, c.kind)
                ELSE LET b == [bi[p] EXCEPT !.connects = @ + 1, !.searches = @ + 1]
                     IN IF outcome = "ok"
                        THEN [b EXCEPT !.pc = "delete",
                                       !.found = [i \in DOMAIN listing |-> listing[i].id],
                                       !.listed = {im.id : im \in search_images(store)}]
                        ELSE [b EXCEPT !.pc = "done",
                                       !.result = upload_block_exc(outcome)]]
    /\ UNCHANGED <<store, next_id, builds>>

(* Variant: the loop is left after its first iteration. *)
remaining_images_none(found) == <<>>

(* Line 249: the images the for loop still has to visit. *)
remaining_images(found) == Tail(found)

(* Lines 249-253: one iteration of the loop over the images found. *)
delete_image(p, outcome) ==
    LET id == Head(bi[p].found)
        exc == delete_image_exc(outcome)
        b == [bi[p] EXCEPT !.deletes = @ + 1, !.found = remaining_images(@),
                           !.delete_failed = (outcome = "False")]
    IN
    /\ bi[p].pc = "delete"
    /\ bi[p].found # <<>>
    /\ store' = IF outcome = "True" THEN {im \in store : im.id # id} ELSE store
    /\ bi' = [bi EXCEPT ![p] =
                IF exc = "none" THEN b
                ELSE [b EXCEPT !.pc = "done", !.result = exc]]
    /\ UNCHANGED <<next_id, builds>>

(* Lines 254-259: conn.create_image(name=IMAGE_NAME, ..., wait=True). *)
create_image(p, outcome) ==
    LET exc == upload_block_exc(outcome)
        b == [bi[p] EXCEPT !.uploads = @ + 1, !.pc = "done"]
    IN
    /\ bi[p].pc = "delete"
    /\ bi[p].found = <<>>
    /\ IF exc = "none"
       THEN /\ store' = store \cup {[id |-> next_id, name |-> IMAGE_NAME]}
            /\ next_id' = next_id + 1
            /\ bi' = [bi EXCEPT ![p] = [b EXCEPT !.result = "ok", !.ret = next_id]]
       ELSE /\ bi' = [bi EXCEPT ![p] = [b EXCEPT !.result = exc]]
            /\ UNCHANGED <<store, next_id>>
    /\ UNCHANGED builds

build_image_step(p) ==
    \/ \E found \in BOOLEAN : get_runner_application(p, found)
    \/ \E ok \in BOOLEAN : execute_command(p, ok)
    \/ \E outcome \in CloudOutcomes, listing \in Listings(search_images(store)) :
          connect_and_search(p, outcome, listing)
    \/ \E outcome \in DeleteOutcomes : delete_image(p, outcome)
    \/ \E outcome \in CloudOutcomes : create_image(p, outcome)


----------------------------------------------------------------------------
(* Configuration model (configuration/base.py).  An Optional value is a   *)
(* sequence: <<>> for None (or not given), <<v>> for v.                    *)

None == <<>>
Some(v) == <<v>>
Truthy(opt) == opt # None

SSH_PORT_MAX == 65535

ProxyPorts == {3128, 8080}

(* Values a caller may pass for an AnyHttpUrl field: nothing, a string     *)
(* that is not an http(s) URL, or a URL with a host and an optional port.  *)
UrlInputs(host) ==
    {None, Some([valid |-> FALSE, host |-> host, port |-> None])}
        \cup {Some([valid |-> TRUE, host |-> host, port |-> q]) :
                 q \in {None} \cup {Some(n) : n \in ProxyPorts}}

NoProxyInputs == {None, Some("localhost,127.0.0.1")}
BoolInputs == {None, Some(FALSE), Some(TRUE)}

UrlError(url) == url # None /\ ~url[1].valid

(* Variant: a populated no_proxy also satisfies the validator. *)
check_use_aproxy_lax(use_aproxy, values) ==
    IF use_aproxy /\ ~(Truthy(values.http) \/ Truthy(values.https)
                          \/ Truthy(values.no_proxy))
    THEN "ValueError"
    ELSE "valid"

(* ProxyConfig.check_use_aproxy: "ValueError" or the validated value.      *)
check_use_aproxy(use_aproxy, values) ==
    IF use_aproxy /\ ~(Truthy(values.http) \/ Truthy(values.https))
    THEN "ValueError"
    ELSE "valid"

(* ProxyConfig(http=..., https=..., no_proxy=..., use_aproxy=...): fields  *)
(* are validated in declaration order; the validator of use_aproxy runs    *)
(* when the field is given and sees the fields validated before it.        *)
ProxyConfig(http, https, no_proxy, use_aproxy) ==
    LET values == [http |-> IF UrlError(http) THEN None ELSE http,
                   https |-> IF UrlError(https) THEN None ELSE https,
                   no_proxy |-> no_proxy]
        use_error == /\ use_aproxy # None
                     /\ check_use_aproxy(use_aproxy[1], values) = "ValueError"
        ok == ~UrlError(http) /\ ~UrlError(https) /\ ~use_error
    IN [ok |-> ok,
        inst |-> [http |-> values.http, https |-> values.https,
                  no_proxy |-> no_proxy,
                  use_aproxy |-> IF use_aproxy = None THEN FALSE
                                 ELSE use_aproxy[1]]]

(* Variant: https is preferred over http. *)
aproxy_address_https_first(self) ==
    IF self.use_aproxy
    THEN LET proxy_address == IF Truthy(self.https) THEN self.https ELSE self.http
         IN IF proxy_address = None
            THEN [exc |-> "AssertionError", value |-> None]
            ELSE [exc |-> "none",
                  value |-> Some(IF proxy_address[1].port = None
                                 THEN <<proxy_address[1].host>>
                                 ELSE <<proxy_address[1].host, ":",
                                        proxy_address[1].port[1]>>)]
    ELSE [exc |-> "none", value |-> None]

(* ProxyConfig.aproxy_address: None, or the text host or host:port as the  *)
(* sequence of its parts; the assert fails on an instance without a URL.   *)
aproxy_address(self) ==
    IF self.use_aproxy
    THEN LET proxy_address == IF Truthy(self.http) THEN self.http ELSE self.https
         IN IF proxy_address = None
            THEN [exc |-> "AssertionError", value |-> None]
            ELSE [exc |-> "none",
                  value |-> Some(IF proxy_address[1].port = None
                                 THEN <<proxy_address[1].host>>
                                 ELSE <<proxy_address[1].host, ":",
                                        proxy_address[1].port[1]>>)]
    ELSE [exc |-> "none", value |-> None]

(* Variant: any populated field makes the config truthy. *)
proxy_bool_any_field(self) ==
    Truthy(self.http) \/ Truthy(self.https) \/ Truthy(self.no_proxy)

(* ProxyConfig.__bool__ *)
proxy_bool(self) == Truthy(self.http) \/ Truthy(self.https)

NoProxyConfig ==
    [called |-> FALSE, http |-> None, https |-> None, no_proxy |-> None,
     use_aproxy |-> None, ok |-> FALSE,
     inst |-> [http |-> None, https |-> None, no_proxy |-> None,
               use_aproxy |-> FALSE]]

NoAproxyRead == [read |-> FALSE, exc |-> "none", value |-> None]

construct_ProxyConfig(http, https, no_proxy, use_aproxy) ==
    LET r == ProxyConfig(http, https, no_proxy, use_aproxy) IN
    /\ proxy_last' = [called |-> TRUE, http |-> http, https |-> https,
                      no_proxy |-> no_proxy, use_aproxy |-> use_aproxy,
                      ok |-> r.ok,
                      inst |-> IF r.ok THEN r.inst ELSE NoProxyConfig.inst]
    /\ aproxy' = NoAproxyRead
    /\ UNCHANGED ssh_last

read_aproxy_address ==
    LET r == aproxy_address(proxy_last.inst) IN
    /\ proxy_last.called
    /\ proxy_last.ok
    /\ aproxy' = [read |-> TRUE, exc |-> r.exc, value |-> r.value]
    /\ UNCHANGED <<proxy_last, ssh_last>>

(* SSHDebugConnection: host is an IP address; port is Field(0, gt=0,       *)
(* le=65535), the default 0 being used as is when no port is given; both   *)
(* fingerprints are required and match ^SHA256:.*                          *)
HostInputs == {[ip |-> TRUE, text |-> "10.0.0.9"], [ip |-> FALSE, text |-> "relay"]}
PortInputs == {None} \cup {Some(n) : n \in {-1, 0, 1, SSH_PORT_MAX, SSH_PORT_MAX + 1}}
FingerprintInputs == {None, Some([sha256 |-> TRUE, rest |-> "abc"]),
                      Some([sha256 |-> FALSE, rest |-> "abc"])}

port_valid(n) == n > 0 /\ n <= SSH_PORT_MAX
fingerprint_valid(fp) == fp # None /\ fp[1].sha256

SSHDebugConnection(host, port, rsa_fingerprint, ed25519_fingerprint) ==
    LET ok == /\ host.ip
              /\ (port # None => port_valid(port[1]))
              /\ fingerprint_valid(rsa_fingerprint)
              /\ fingerprint_valid(ed25519_fingerprint)
    IN [ok |-> ok,
        inst |-> [host |-> host.text,
                  port |-> IF port = None THEN 0 ELSE port[1],
                  rsa_fingerprint |-> rsa_fingerprint,
                  ed25519_fingerprint |-> ed25519_fingerprint]]

NoSSHDebugConnection ==
    [called |-> FALSE, port |-> None, ok |-> FALSE,
     inst |-> [host |-> "", port |-> 0, rsa_fingerprint |-> None,
               ed25519_fingerprint |-> None]]

construct_SSHDebugConnection(host, port, rsa_fingerprint, ed25519_fingerprint) ==
    LET r == SSHDebugConnection(host, port, rsa_fingerprint, ed25519_fingerprint) IN
    /\ ssh_last' = [called |-> TRUE, port |-> port, ok |-> r.ok,
                    inst |-> IF r.ok THEN r.inst ELSE NoSSHDebugConnection.inst]
    /\ UNCHANGED <<proxy_last, aproxy>>

----------------------------------------------------------------------------
(* create_instance_config.  Texts are sequences of their parts.            *)

Callers == 1..NumCallers

(* Unit names a caller may pass; the last one has no "/" in it.            *)
UnitNames == {<<"runner", "/", "0">>, <<"runner", "/", "1">>, <<"runner">>}

(* Values secrets.token_hex(12) may return. *)
Suffixes == {"0f1e", "a7c3"}

GithubPaths == {"org/repo"}
OpenstackImages == {"image-1"}

(* Position of the last "/" of a text, 0 when it has none. *)
LastSlash(text) ==
    IF \E i \in DOMAIN text : text[i] = "/"
    THEN CHOOSE i \in DOMAIN text :
            text[i] = "/" /\ \A j \in DOMAIN text : text[j] = "/" => j <= i
    ELSE 0

(* unit_name.rsplit("/", 1) *)
rsplit(text) ==
    IF LastSlash(text) = 0 THEN <<text>>
    ELSE <<SubSeq(text, 1, LastSlash(text) - 1),
           SubSeq(text, LastSlash(text) + 1, Len(text))>>

(* Variant: the name is built from the unit alone. *)
instance_name_no_suffix(app_name, unit_num, suffix) ==
    app_name \o <<"-">> \o unit_num

(* f"{app_name}-{unit_num}-{suffix}" *)
instance_name(app_name, unit_num, suffix) ==
    app_name \o <<"-">> \o unit_num \o <<"-">> \o <<suffix>>

(* Variant: the token kept from the first call is put in the config. *)
InstanceConfig_cached_token(app_name, unit_num, suffix, registration_token, path, openstack_image) ==
    [name |-> instance_name(app_name, unit_num, suffix),
     labels |-> <<app_name, <<"jammy">> >>,
     registration_token |-> 1,
     github_path |-> path,
     openstack_image |-> openstack_image]

(* Lines 279-285: the InstanceConfig the call returns. *)
InstanceConfig(app_name, unit_num, suffix, registration_token, path, openstack_image) ==
    [name |-> instance_name(app_name, unit_num, suffix),
     labels |-> <<app_name, <<"jammy">> >>,
     registration_token |-> registration_token,
     github_path |-> path,
     openstack_image |-> openstack_image]

NoInstanceConfig ==
    [name |-> <<>>, labels |-> <<>>, registration_token |-> 0,
     github_path |-> "", openstack_image |-> ""]

IdleConfigCall ==
    [pc |-> "idle", unit_name |-> <<>>, app_name |-> <<>>, unit_num |-> <<>>,
     suffix |-> "", requests |-> 0, fetched |-> 0, result |-> "none",
     config |-> NoInstanceConfig]

(* Lines 276-277: the unit name is split (a name without "/" fails the     *)
(* unpacking with ValueError) and the suffix is drawn.                     *)
create_instance_config_call(p, unit_name, suffix) ==
    LET parts == rsplit(unit_name) IN
    /\ cic[p].pc \in {"idle", "done"}
    /\ cfg_calls < MaxConfigs
    /\ cfg_calls' = cfg_calls + 1
    /\ cic' = [cic EXCEPT ![p] =
                 IF Len(parts) # 2
                 THEN [IdleConfigCall EXCEPT !.pc = "done",
                                             !.unit_name = unit_name,
                                             !.result = "ValueError"]
                 ELSE [IdleConfigCall EXCEPT !.pc = "token",
                                             !.unit_name = unit_name,
                                             !.app_name = parts[1],
                                             !.unit_num = parts[2],
                                             !.suffix = suffix]]
    /\ UNCHANGED <<issued, configs>>

(* github_client.get_runner_registration_token(path): the issuer hands out *)
(* a token it has not handed out before.                                    *)
get_runner_registration_token == issued + 1

(* Lines 278-285: one token is requested and the InstanceConfig returned;  *)
(* an exception of the issuer leaves the function as it is.                *)
create_instance_config(p, path, openstack_image, issuer_ok) ==
    LET token == get_runner_registration_token
        config == InstanceConfig(cic[p].app_name, cic[p].unit_num, cic[p].suffix,
                                 token, path, openstack_image)
    IN
    /\ cic[p].pc = "token"
    /\ IF issuer_ok
       THEN /\ issued' = issued + 1
            /\ cic' = [cic EXCEPT ![p] =
                         [@ EXCEPT !.pc = "done", !.requests = @ + 1,
                                   !.fetched = token, !.result = "ok",
                                   !.config = config]]
            /\ configs' = configs \cup
                             {[unit_name |-> cic[p].unit_name,
                               suffix |-> cic[p].suffix, config |-> config]}
       ELSE /\ cic' = [cic EXCEPT ![p] =
                         [@ EXCEPT !.pc = "done", !.requests = @ + 1,
                                   !.result = "GithubClientError"]]
            /\ UNCHANGED <<issued, configs>>
    /\ UNCHANGED cfg_calls

----------------------------------------------------------------------------
(* Composition of the build command and of the runner environment.  A text *)
(* is the sequence of its parts; <<>> is the empty string.                 *)

EmptyText == <<>>

(* The ProxyConfig and SSHDebugConnection instances construction yields. *)
ProxyConfigs ==
    {ProxyConfig(t[1], t[2], t[3], t[4]).inst :
        t \in {t \in UrlInputs("10.0.0.1") \X UrlInputs("10.0.0.2")
                     \X NoProxyInputs \X BoolInputs :
                ProxyConfig(t[1], t[2], t[3], t[4]).ok}}

SSHDebugConnections ==
    {SSHDebugConnection(t[1], t[2], t[3], t[4]).inst :
        t \in {t \in HostInputs \X PortInputs \X FingerprintInputs
                     \X FingerprintInputs :
                SSHDebugConnection(t[1], t[2], t[3], t[4]).ok}}

(* str(url) of an AnyHttpUrl *)
url_str(url) ==
    <<"//", url.host>> \o (IF url.port = None THEN <<>> ELSE <<":", url.port[1]>>)

ProxyKeys == {"httpProxy", "httpsProxy", "noProxy"}

(* Variant: every key is emitted, empty or not. *)
generate_docker_client_proxy_config_json_all_keys(http_proxy, https_proxy, no_proxy) ==
    [proxies |-> [default |->
        [key \in ProxyKeys |->
            CASE key = "httpProxy" -> http_proxy
              [] key = "httpsProxy" -> https_proxy
              [] OTHER -> no_proxy]]]

(* _generate_docker_client_proxy_config_json: the JSON document, as the    *)
(* mapping that json.dumps writes out.                                      *)
generate_docker_client_proxy_config_json(http_proxy, https_proxy, no_proxy) ==
    LET value(key) == CASE key = "httpProxy" -> http_proxy
                        [] key = "httpsProxy" -> https_proxy
                        [] OTHER -> no_proxy
    IN [proxies |-> [default |->
           [key \in {k \in ProxyKeys : value(k) # EmptyText} |-> value(key)]]]

(* _generate_docker_proxy_unit_file: the template is rendered from the     *)
(* proxy config it is given.                                                *)
generate_docker_proxy_unit_file(proxies) ==
    [template |-> "systemd-docker-proxy.j2", proxies |-> proxies]

BUILD_OPENSTACK_IMAGE_SCRIPT_FILENAME == "scripts/build-openstack-image.sh"

(* _build_image_command: proxies is None or Some(ProxyConfig); a           *)
(* ProxyConfig is tested for truth through __bool__.                        *)
build_image_command(runner_info, proxies) ==
    LET set == proxies # None /\ proxy_bool(proxies[1])
        http_proxy == IF set /\ Truthy(proxies[1].http)
                      THEN url_str(proxies[1].http[1]) ELSE EmptyText
        https_proxy == IF set /\ Truthy(proxies[1].https)
                       THEN url_str(proxies[1].https[1]) ELSE EmptyText
        no_proxy == IF set /\ Truthy(proxies[1].no_proxy)
                    THEN <<proxies[1].no_proxy[1]>> ELSE EmptyText
    IN << <<"/usr/bin/bash">>,
          <<BUILD_OPENSTACK_IMAGE_SCRIPT_FILENAME>>,
          <<runner_info.download_url>>,
          http_proxy,
          https_proxy,
          no_proxy,
          generate_docker_proxy_unit_file(proxies),
          generate_docker_client_proxy_config_json(http_proxy, https_proxy, no_proxy) >>

RunnerApplications == {[download_url |-> "https://runner.tar.gz", architecture |-> "x64"]}

(* Variant: the first connection is always taken. *)
secrets_choice_first(seq) == {seq[1]}

(* secrets.choice(seq): the values it may return. *)
secrets_choice(seq) == {seq[i] : i \in DOMAIN seq}

(* Lists of SSH debug connections a caller may pass: None or a list. *)
ConnectionLists ==
    UNION {[1..n -> SSHDebugConnections] : n \in 0..MaxConnections}

ConnectionInputs == {None} \cup {Some(l) : l \in ConnectionLists}

(* Proxy settings and mirrors the environment is rendered with. *)
EnvProxyInputs ==
    {None} \cup {Some(c) : c \in {c \in ProxyConfigs :
                    /\ c.http # None /\ c.http[1].port = None
                    /\ c.https = None /\ c.no_proxy = None /\ ~c.use_aproxy}}

MirrorInputs == {None, Some("mirror.internal")}

(* Line 313: secrets.choice(ssh_debug_connections) if ssh_debug_connections *)
(* else None -- the values ssh_debug_info may take.                        *)
ssh_debug_info_choices(ssh_debug_connections) ==
    IF ssh_debug_connections # None /\ ssh_debug_connections[1] # <<>>
    THEN {Some(c) : c \in secrets_choice(ssh_debug_connections[1])}
    ELSE {None}

NoOutput == [kind |-> "none"]

(* A call of _generate_docker_client_proxy_config_json. *)
call_generate_docker_client_proxy_config_json(http_proxy, https_proxy, no_proxy) ==
    out' = [kind |-> "json", http_proxy |-> http_proxy,
            https_proxy |-> https_proxy, no_proxy |-> no_proxy,
            doc |-> generate_docker_client_proxy_config_json(
                        http_proxy, https_proxy, no_proxy)]

(* A call of _build_image_command. *)
call_build_image_command(runner_info, proxies) ==
    out' = [kind |-> "cmd", proxies |-> proxies,
            cmd |-> build_image_command(runner_info, proxies)]

(* Lines 309-314: the variables the env.j2 template is rendered with. *)
runner_env(proxies, dockerhub_mirror, ssh_debug_info) ==
    [proxies |-> proxies,
     pre_job_script |-> EmptyText,
     dockerhub_mirror |-> IF dockerhub_mirror = None THEN EmptyText
                          ELSE <<dockerhub_mirror[1]>>,
     ssh_debug_info |-> ssh_debug_info]

(* A call of _generate_runner_env. *)
generate_runner_env(proxies, dockerhub_mirror, ssh_debug_connections) ==
    \E ssh_debug_info \in ssh_debug_info_choices(ssh_debug_connections) :
        LET env == runner_env(proxies, dockerhub_mirror, ssh_debug_info) IN
        out' = [kind |-> "env",
                ssh_debug_connections |-> ssh_debug_connections,
                proxies |-> env.proxies,
                pre_job_script |-> env.pre_job_script,
                dockerhub_mirror |-> env.dockerhub_mirror,
                ssh_debug_info |-> env.ssh_debug_info]

TextInputs == {EmptyText, <<"//", "10.0.0.1">>, <<"localhost,127.0.0.1">>}

----------------------------------------------------------------------------
(* create_instance: the call and the executions of its body. *)

(* ",".join(labels) *)
RECURSIVE join(_)
join(labels) ==
    IF labels = <<>> THEN EmptyText
    ELSE IF Len(labels) = 1 THEN labels[1]
    ELSE labels[1] \o <<",">> \o join(Tail(labels))

(* Variant: the userdata carries a token requested for this attempt. *)
generate_cloud_init_userdata_fresh_token(instance_config, env_contents) ==
    [github_url |-> <<"https://github.com/", instance_config.github_path>>,
     token |-> get_runner_registration_token,
     instance_labels |-> join(instance_config.labels),
     instance_name |-> instance_config.name,
     env_contents |-> env_contents]

(* _generate_cloud_init_userdata: the variables the userdata template is   *)
(* rendered with.                                                           *)
generate_cloud_init_userdata(instance_config, env_contents) ==
    [github_url |-> <<"https://github.com/", instance_config.github_path>>,
     token |-> instance_config.registration_token,
     instance_labels |-> join(instance_config.labels),
     instance_name |-> instance_config.name,
     env_contents |-> env_contents]

(* Lines 370-376: the create_server request of one execution of the body. *)
create_server_request(instance_config, cloud_userdata) ==
    [name |-> instance_config.name,
     image |-> instance_config.openstack_image,
     flavor |-> "m1.small",
     userdata |-> cloud_userdata]

(* The InstanceConfig values create_instance is called with: two results   *)
(* of create_instance_config, with different names and tokens.             *)
LaunchConfigs ==
    {InstanceConfig(<<"runner">>, <<"0">>, "0f1e", 1, path, openstack_image) :
        path \in GithubPaths, openstack_image \in OpenstackImages}
    \cup
    {InstanceConfig(<<"runner">>, <<"1">>, "a7c3", 2, path, openstack_image) :
        path \in GithubPaths, openstack_image \in OpenstackImages}

(* conn.create_server(..., wait=True): whether the cloud has created the   *)
(* server when the request ends.  A request that returns has created it;  *)
(* one that raises OpenStackCloudException was either rejected or failed  *)
(* while waiting for the server it had created; a request refused as      *)
(* unauthorized created nothing.                                           *)
server_created(outcome) ==
    CASE outcome = "ok" -> {TRUE}
      [] outcome = "OpenStackCloudException" -> BOOLEAN
      [] OTHER -> {FALSE}

(* The servers of the call after the cloud created one more for a request: *)
(* the cloud gives each server its own identifier and accepts a name that  *)
(* is already in use.                                                       *)
cloud_create_server(servers, request) ==
    servers \cup {[id |-> Cardinality(servers) + 1, name |-> request.name]}

create_instance_call(clouds, instance_config) ==
    /\ ci_pc \in {"idle", "done"}
    /\ ci_pc' = "running"
    /\ ci_clouds' = clouds
    /\ ci_config' = instance_config
    /\ ci_config0' = instance_config
    /\ ci_remain' = Tries
    /\ ci_delay' = Delay
    /\ ci_tries' = 0
    /\ ci_log' = <<>>
    /\ ci_sleeps' = <<>>
    /\ ci_result' = "none"
    /\ ci_servers' = {}
    /\ UNCHANGED <<conn, lp_result>>

(* One execution of the body, called with the default proxies,             *)
(* dockerhub_mirror and ssh_debug_connections (None).  The body reads the  *)
(* fields of instance_config and assigns none of them; it deletes no       *)
(* server, neither before create_server nor after it failed.               *)
create_instance(outcome, created) ==
    LET c == create_connection(ci_clouds)
        exc == create_instance_exc(c, outcome)
    IN
    /\ ci_pc = "running"
    /\ conn' = c
    /\ ci_tries' = ci_tries + 1
    /\ \E ssh_debug_info \in ssh_debug_info_choices(None) :
        LET env_contents == runner_env(None, None, ssh_debug_info)
            cloud_userdata == generate_cloud_init_userdata(ci_config, env_contents)
            request == create_server_request(ci_config, cloud_userdata)
        IN /\ ci_log' = IF c.kind = "Connection"
                        THEN Append(ci_log,
                                    [cloud |-> c.cloud, outcome |-> outcome,
                                     name |-> request.name, image |-> request.image,
                                     flavor |-> request.flavor,
                                     userdata |-> request.userdata])
                        ELSE ci_log
           /\ ci_servers' = IF c.kind = "Connection" /\ created
                            THEN cloud_create_server(ci_servers, request)
                            ELSE ci_servers
    /\ IF exc = "none"
       THEN /\ ci_pc' = "done"
            /\ ci_result' = "ok"
            /\ UNCHANGED <<ci_remain, ci_delay, ci_sleeps>>
       ELSE LET r == retry_on_exception(ci_remain, ci_delay) IN
            /\ ci_remain' = r.remain
            /\ ci_delay' = r.delay
            /\ ci_pc' = IF r.reraise THEN "done" ELSE "running"
            /\ ci_result' = IF r.reraise THEN exc ELSE "none"
            /\ ci_sleeps' = IF r.reraise THEN ci_sleeps
                            ELSE Append(ci_sleeps, ci_delay)
    /\ UNCHANGED <<ci_clouds, lp_result, ci_config, ci_config0>>

----------------------------------------------------------------------------
InitLaunchVars ==
    /\ conn = NoConn
    /\ lp_result = "none"
    /\ ci_pc = "idle"
    /\ ci_clouds = <<>>
    /\ ci_remain = 0
    /\ ci_delay = 0
    /\ ci_tries = 0
    /\ ci_log = <<>>
    /\ ci_sleeps = <<>>
    /\ ci_result = "none"
    /\ ci_config = NoInstanceConfig
    /\ ci_config0 = NoInstanceConfig
    /\ ci_servers = {}

InitImageVars ==
    /\ store = {}
    /\ next_id = NumPreexisting + 2
    /\ builds = 0
    /\ bi = [p \in Builders |-> IdleBuild]

InitConfigVars ==
    /\ proxy_last = NoProxyConfig
    /\ aproxy = NoAproxyRead
    /\ ssh_last = NoSSHDebugConnection

InitInstanceConfigVars ==
    /\ issued = 0
    /\ cfg_calls = 0
    /\ cic = [p \in Callers |-> IdleConfigCall]
    /\ configs = {}

InitComposeVars ==
    out = NoOutput

(* create_instance under its retry decorator, and list_projects.  The two  *)
(* functions share no state of the program, so the calls of list_projects  *)
(* are explored before the first create_instance call rather than          *)
(* interleaved with every later state.                                     *)
InitLaunch ==
    /\ InitLaunchVars /\ InitImageVars /\ InitConfigVars
    /\ InitInstanceConfigVars /\ InitComposeVars

NextLaunch ==
    \/ \E clouds \in CloudConfigs, instance_config \in LaunchConfigs :
          create_instance_call(clouds, instance_config) /\ UNCHANGED <<imageVars, configVars, instanceConfigVars, composeVars>>
    \/ \E outcome \in CloudOutcomes : \E created \in server_created(outcome) :
          create_instance(outcome, created) /\ UNCHANGED <<imageVars, configVars, instanceConfigVars, composeVars>>
    \/ \E clouds \in CloudConfigs, outcome \in CloudOutcomes :
          ci_pc = "idle" /\ list_projects(clouds, outcome) /\ UNCHANGED <<imageVars, configVars, instanceConfigVars, composeVars>>

SpecLaunch == InitLaunch /\ [][NextLaunch]_vars

(* build_image calls made one after another against one image store. *)
InitImage ==
    /\ InitLaunchVars
    /\ InitConfigVars
    /\ InitInstanceConfigVars
    /\ InitComposeVars
    /\ store \in SUBSET PreexistingImages
    /\ next_id = NumPreexisting + 2
    /\ builds = 0
    /\ bi = [p \in Builders |-> IdleBuild]

NextImage ==
    \/ \E arch \in Archs, clouds \in CloudConfigs :
          build_image_call(SequentialCaller, arch, clouds) /\ UNCHANGED <<launchVars, configVars, instanceConfigVars, composeVars>>
    \/ build_image_step(SequentialCaller) /\ UNCHANGED <<launchVars, configVars, instanceConfigVars, composeVars>>

SpecImage == InitImage /\ [][NextImage]_vars

(* Two build_image calls at once, for a supported architecture and a      *)
(* one-cloud document: every cloud call is one step, and the steps of the  *)
(* two callers interleave.                                                  *)
ConcurrentBuilders == {p \in Builders : p <= SequentialCaller + 1}

NextImageConcurrent ==
    \/ \E p \in ConcurrentBuilders, clouds \in CloudConfigs :
          /\ bi[p].pc = "idle"
          /\ Len(clouds) = 1
          /\ build_image_call(p, "x64", clouds)
          /\ UNCHANGED <<launchVars, configVars, instanceConfigVars, composeVars>>
    \/ \E p \in ConcurrentBuilders :
          /\ build_image_step(p)
          /\ UNCHANGED <<launchVars, configVars, instanceConfigVars, composeVars>>

SpecImageConcurrent == InitImage /\ [][NextImageConcurrent]_vars

(* Construction and use of the configuration objects. *)
InitConfig ==
    /\ InitLaunchVars /\ InitImageVars /\ InitConfigVars
    /\ InitInstanceConfigVars /\ InitComposeVars

NextConfig ==
    \/ \E http \in UrlInputs("10.0.0.1"), https \in UrlInputs("10.0.0.2"),
          no_proxy \in NoProxyInputs, use_aproxy \in BoolInputs :
          /\ construct_ProxyConfig(http, https, no_proxy, use_aproxy)
          /\ UNCHANGED <<launchVars, imageVars, instanceConfigVars, composeVars>>
    \/ read_aproxy_address /\ UNCHANGED <<launchVars, imageVars, instanceConfigVars, composeVars>>
    \/ \E host \in HostInputs, port \in PortInputs,
          rsa \in FingerprintInputs, ed \in FingerprintInputs :
          /\ construct_SSHDebugConnection(host, port, rsa, ed)
          /\ UNCHANGED <<launchVars, imageVars, instanceConfigVars, composeVars>>

SpecConfig == InitConfig /\ [][NextConfig]_vars

(* create_instance_config calls, of one caller after another or of         *)
(* several callers at once.                                                 *)
InitInstanceConfig ==
    /\ InitLaunchVars /\ InitImageVars /\ InitConfigVars
    /\ InitInstanceConfigVars /\ InitComposeVars

NextInstanceConfig ==
    \/ \E p \in Callers, unit_name \in UnitNames, suffix \in Suffixes :
          /\ create_instance_config_call(p, unit_name, suffix)
          /\ UNCHANGED <<launchVars, imageVars, configVars, composeVars>>
    \/ \E p \in Callers, path \in GithubPaths, image \in OpenstackImages,
          issuer_ok \in BOOLEAN :
          /\ create_instance_config(p, path, image, issuer_ok)
          /\ UNCHANGED <<launchVars, imageVars, configVars, composeVars>>

SpecInstanceConfig == InitInstanceConfig /\ [][NextInstanceConfig]_vars

(* The composition functions, applied to every input of the bounded sets. *)
InitCompose ==
    /\ InitLaunchVars /\ InitImageVars /\ InitConfigVars
    /\ InitInstanceConfigVars /\ InitComposeVars

NextCompose ==
    \/ \E http_proxy \in TextInputs, https_proxy \in TextInputs,
          no_proxy \in TextInputs :
          /\ call_generate_docker_client_proxy_config_json(
                 http_proxy, https_proxy, no_proxy)
          /\ UNCHANGED <<launchVars, imageVars, configVars, instanceConfigVars>>
    \/ \E runner_info \in RunnerApplications,
          proxies \in {None} \cup {Some(c) : c \in ProxyConfigs} :
          /\ call_build_image_command(runner_info, proxies)
          /\ UNCHANGED <<launchVars, imageVars, configVars, instanceConfigVars>>
    \/ \E proxies \in EnvProxyInputs, dockerhub_mirror \in MirrorInputs,
          ssh_debug_connections \in ConnectionInputs :
          /\ generate_runner_env(proxies, dockerhub_mirror, ssh_debug_connections)
          /\ UNCHANGED <<launchVars, imageVars, configVars, instanceConfigVars>>

SpecCompose == InitCompose /\ [][NextCompose]_vars

----------------------------------------------------------------------------
(* Properties *)

(* The error kinds of the taxonomy, by their names in the source:         *)
(* ConfigError, AuthError, ImageBuildError, InstanceLaunchError.          *)
ConfigError == "InvalidConfigError"
AuthError == "OpenStackUnauthorizedError"
ImageBuildError == "OpenstackImageBuildError"
InstanceLaunchError == "InstanceLaunchError"
Taxonomy == {ConfigError, AuthError, ImageBuildError, InstanceLaunchError}

OkIndexes == {i \in DOMAIN ci_log : ci_log[i].outcome = "ok"}
AllCloudExceptions ==
    \A i \in DOMAIN ci_log : ci_log[i].outcome = "OpenStackCloudException"

(* C1: a finished create_instance call that reached the cloud made as     *)
(* many attempts as the index of the first successful create_server,      *)
(* at most 5: with a cloud exception on every attempt there are exactly 5 *)
(* requests and the call fails with InstanceLaunchError; a success on     *)
(* attempt k ends the call with success after k requests, none after it.  *)
C1_RetryBound ==
    (ci_pc = "done" /\ ci_clouds # <<>>) =>
        /\ ci_tries = Len(ci_log)
        /\ ci_tries <= Tries
        /\ (OkIndexes = {} => ci_tries = Tries /\ ci_result # "ok")
        /\ (AllCloudExceptions => ci_result = InstanceLaunchError)
        /\ \A k \in OkIndexes : k = Len(ci_log) /\ ci_result = "ok"

C1_Witness ==
    /\ ci_pc = "done"
    /\ Len(ci_log) = Tries
    /\ AllCloudExceptions
    /\ ci_result = InstanceLaunchError

(* A call that succeeds on its third attempt. *)
C1_ThirdAttempt ==
    /\ ci_pc = "done"
    /\ Len(ci_log) = 3
    /\ ci_log[3].outcome = "ok"
    /\ ci_result = "ok"

(* C2: when a build_image call returns an identifier, the store holds     *)
(* exactly one image named IMAGE_NAME and it carries that identifier.     *)
C2_OneImageAfterBuild ==
    [][\A p \in Builders :
          (bi[p].pc # "done" /\ bi'[p].pc = "done" /\ bi'[p].result = "ok") =>
              {im \in store' : im.name = IMAGE_NAME}
                  = {[id |-> bi'[p].ret, name |-> IMAGE_NAME]}]_vars

C2_Witness ==
    \E p \in Builders :
        /\ bi[p].pc = "done"
        /\ bi[p].result = "ok"
        /\ bi[p].deletes >= 2
        /\ builds = 2

(* C3: a finished build_image call for an architecture other than x64 and *)
(* arm64 has failed with ImageBuildError without running the build        *)
(* script and without using the cloud connector.                          *)
C3_UnsupportedArchBeforeBuild ==
    \A p \in Builders :
        (bi[p].pc = "done" /\ bi[p].arch \notin {"x64", "arm64"}) =>
            /\ bi[p].result = ImageBuildError
            /\ bi[p].script_runs = 0
            /\ bi[p].connects = 0

(* C4: the step in which delete_image reports failure ends build_image    *)
(* with ImageBuildError, with no create_image request issued by the call  *)
(* and no image in the store that the call added.                         *)
C4_DeleteFailureAborts ==
    [][\A p \in Builders :
          (~bi[p].delete_failed /\ bi'[p].delete_failed) =>
              /\ bi'[p].pc = "done"
              /\ bi'[p].result = ImageBuildError
              /\ bi'[p].uploads = 0
              /\ \A im \in store' : im.id < bi'[p].id0]_vars

C4_Witness ==
    \E p \in Builders :
        /\ bi[p].delete_failed
        /\ bi[p].pc = "done"
        /\ bi[p].deletes = 2

(* C5: a create_instance call in which the cloud answered Unauthorized    *)
(* fails with AuthError after exactly one attempt.                        *)
C5_UnauthorizedNotRetried ==
    (ci_pc = "done" /\ \E i \in DOMAIN ci_log : ci_log[i].outcome = "Unauthorized") =>
        /\ ci_result = AuthError
        /\ ci_tries = 1

(* C6: _create_connection on a document without clouds fails with         *)
(* ConfigError before openstack.connect is called; with one or more       *)
(* clouds it connects to the first one.                                    *)
C6_ConnectSelectsFirst ==
    conn.kind # "none" =>
        /\ (conn.clouds = <<>> =>
               conn.kind = ConfigError /\ ~conn.connect_called)
        /\ (conn.clouds # <<>> =>
               conn.kind = "Connection" /\ conn.cloud = conn.clouds[1])

(* C7: every failure of build_image and of create_instance is one of the  *)
(* kinds of the taxonomy.                                                  *)
C7_OnlyTaxonomyErrors ==
    /\ \A p \in Builders :
          bi[p].pc = "done" => bi[p].result \in Taxonomy \cup {"ok"}
    /\ ci_pc = "done" => ci_result \in Taxonomy \cup {"ok"}

(* C8: ProxyConfig(use_aproxy=True) with neither http nor https fails,    *)
(* and no constructed ProxyConfig has use_aproxy without http and https.  *)
C8_AproxyNeedsUrl ==
    proxy_last.called =>
        /\ (/\ proxy_last.use_aproxy = Some(TRUE)
            /\ proxy_last.http = None
            /\ proxy_last.https = None) => ~proxy_last.ok
        /\ proxy_last.ok =>
              ~(/\ proxy_last.inst.use_aproxy
                /\ proxy_last.inst.http = None
                /\ proxy_last.inst.https = None)

C8_Witness ==
    /\ proxy_last.called
    /\ proxy_last.use_aproxy = Some(TRUE)
    /\ proxy_last.http = None
    /\ proxy_last.https = None
    /\ proxy_last.no_proxy # None
    /\ ~proxy_last.ok

(* C9: aproxy_address of a constructed ProxyConfig is None when           *)
(* use_aproxy is false; otherwise it is host, or host:port when the URL   *)
(* has a port, of http when http is set and of https otherwise.           *)
C9_AproxyAddress ==
    aproxy.read =>
        LET self == proxy_last.inst
            url == IF self.http # None THEN self.http[1] ELSE self.https[1]
        IN /\ aproxy.exc = "none"
           /\ ~self.use_aproxy => aproxy.value = None
           /\ self.use_aproxy =>
                 /\ aproxy.value # None
                 /\ Head(aproxy.value[1]) = url.host
                 /\ (url.port = None => Len(aproxy.value[1]) = 1)
                 /\ (url.port # None =>
                        aproxy.value[1] = <<url.host, ":", url.port[1]>>)

C9_Witness ==
    /\ aproxy.read
    /\ proxy_last.inst.use_aproxy
    /\ proxy_last.inst.http # None
    /\ proxy_last.inst.https # None
    /\ proxy_last.inst.http[1].port = None
    /\ proxy_last.inst.https[1].port # None
    /\ aproxy.value = Some(<<proxy_last.inst.http[1].host>>)

(* C10: every constructed SSHDebugConnection has a port in 1..65535; a    *)
(* construction without a port fails.                                      *)
C10_PortInRange ==
    ssh_last.called =>
        /\ ssh_last.ok => ssh_last.inst.port \in 1..SSH_PORT_MAX
        /\ ssh_last.port = None => ~ssh_last.ok

Returns(p) == cic[p].pc = "token" /\ cic'[p].pc = "done" /\ cic'[p].result = "ok"

(* C11: a create_instance_config call that returns an InstanceConfig has   *)
(* requested exactly one registration token, the InstanceConfig carries    *)
(* the token the issuer handed out in that call, and no InstanceConfig     *)
(* returned earlier carries it.                                             *)
C11_FreshTokenPerCall ==
    [][\A p \in Callers :
          Returns(p) =>
              /\ cic'[p].requests = 1
              /\ issued' = issued + 1
              /\ cic'[p].fetched = issued'
              /\ cic'[p].config.registration_token = cic'[p].fetched
              /\ \A c \in configs :
                    c.config.registration_token
                        # cic'[p].config.registration_token]_vars

C11_Witness ==
    /\ issued = 2
    /\ \E c, d \in configs :
          /\ c.unit_name = d.unit_name
          /\ c.config.registration_token = 1
          /\ d.config.registration_token = 2

(* C12 as stated: an InstanceConfig returned for a unit never has the name *)
(* of an InstanceConfig returned earlier for the same unit.                *)
C12_NamesAlwaysDiffer ==
    [][\A p \in Callers :
          Returns(p) =>
              \A c \in configs :
                  c.unit_name = cic[p].unit_name =>
                      c.config.name # cic'[p].config.name]_vars

(* C12 amended: the name is app-unit-suffix with the suffix drawn in the   *)
(* call, and two names for one unit differ exactly when the two drawn      *)
(* suffixes differ.                                                         *)
C12_NamesDifferWithSuffixes ==
    [][\A p \in Callers :
          Returns(p) =>
              LET name == cic'[p].config.name IN
              /\ name = cic[p].app_name \o <<"-">> \o cic[p].unit_num
                            \o <<"-", cic[p].suffix>>
              /\ Len(name) = Len(cic[p].unit_name) + 2
              /\ \A c \in configs :
                    c.unit_name = cic[p].unit_name =>
                        (c.config.name = name <=> c.suffix = cic[p].suffix)]_vars

C12_Witness ==
    \E c, d \in configs :
        /\ c.unit_name = d.unit_name
        /\ c.suffix # d.suffix
        /\ c.config.name # d.config.name
        /\ \E p, q \in Callers : p # q /\ cic[p].config = c.config
                                       /\ cic[q].config = d.config

(* C13: in a create_instance call whose attempts all failed the delays     *)
(* slept before attempts 2..5 are 5, 10, 20, 40; a delay is slept between  *)
(* attempts only, never after the last one, and never exceeds 60.          *)
C13_BackoffDelays ==
    /\ \A i \in DOMAIN ci_sleeps : ci_sleeps[i] <= MaxDelay
    /\ ci_pc = "running" => Len(ci_sleeps) = ci_tries
    /\ ci_pc = "done" => Len(ci_sleeps) = ci_tries - 1
    /\ (ci_pc = "done" /\ ci_result # "ok") => ci_sleeps = <<5, 10, 20, 40>>

C13_Witness ==
    /\ ci_pc = "done"
    /\ ci_result = InstanceLaunchError
    /\ ci_tries = 5
    /\ ci_sleeps = <<5, 10, 20, 40>>

(* C14: build_image runs the build script at most once, and the step in    *)
(* which the script fails ends the call with ImageBuildError, no cloud     *)
(* operation issued by the call, and the image store as it was.            *)
C14_BuildFailureAborts ==
    [][\A p \in Builders :
          /\ bi'[p].script_runs <= 1
          /\ (bi[p].pc = "build" /\ bi'[p].script_failed) =>
                /\ bi'[p].pc = "done"
                /\ bi'[p].result = ImageBuildError
                /\ bi'[p].connects = 0
                /\ bi'[p].searches = 0
                /\ bi'[p].deletes = 0
                /\ bi'[p].uploads = 0
                /\ store' = store]_vars

C14_Witness ==
    \E p \in Builders :
        /\ bi[p].pc = "done"
        /\ bi[p].script_failed
        /\ bi[p].script_runs = 1
        /\ bi[p].result = ImageBuildError
        /\ \E im \in store : im.name = IMAGE_NAME

(* C15: when build_image issues the upload, every image its search found   *)
(* has been deleted and is gone from the store, and no delete is issued    *)
(* after the upload.                                                        *)
C15_DeleteBeforeUpload ==
    [][\A p \in Builders :
          /\ bi'[p].uploads = bi[p].uploads + 1 =>
                /\ bi[p].deletes = Cardinality(bi[p].listed)
                /\ \A im \in store : im.id \notin bi[p].listed
          /\ bi'[p].deletes = bi[p].deletes + 1 => bi[p].uploads = 0]_vars

C15_Witness ==
    \E p \in Builders :
        /\ bi[p].pc = "done"
        /\ bi[p].uploads = 1
        /\ bi[p].deletes = 2
        /\ Cardinality(bi[p].listed) = 2

ImagesNamed(name) == {im \in store : im.name = name}
ReturnedOk(p) == bi[p].pc = "done" /\ bi[p].result = "ok"
BothReturnedOk == \A p \in ConcurrentBuilders : ReturnedOk(p)

(* C16 as stated, for two calls that both returned an identifier: the      *)
(* store then holds at most one image named IMAGE_NAME.                    *)
C16_AtMostOneAfterBoth ==
    BothReturnedOk => Cardinality(ImagesNamed(IMAGE_NAME)) <= 1

(* C16 amended: once a concurrent call has returned an identifier, every   *)
(* image named IMAGE_NAME is one that a returned call uploaded, so at most *)
(* one per call, and once both have, at least one is held.                 *)
C16_OnlyUploadsOfTheCalls ==
    /\ (\E p \in ConcurrentBuilders : ReturnedOk(p)) =>
          ImagesNamed(IMAGE_NAME) \subseteq
              {[id |-> bi[p].ret, name |-> IMAGE_NAME] :
                  p \in {q \in ConcurrentBuilders : ReturnedOk(q)}}
    /\ BothReturnedOk =>
          /\ ImagesNamed(IMAGE_NAME) # {}
          /\ Cardinality(ImagesNamed(IMAGE_NAME)) <= Cardinality(ConcurrentBuilders)

C16_Witness ==
    /\ BothReturnedOk
    /\ Cardinality(ImagesNamed(IMAGE_NAME)) = 2
    /\ \E p \in ConcurrentBuilders : bi[p].deletes = 2

----------------------------------------------------------------------------
(* The proxy arguments of a composed build command: positions 4, 5 and 6   *)
(* of the argument list of _build_image_command.                           *)
ProxyArgs(cmd) == <<cmd[4], cmd[5], cmd[6]>>

FalsyProxyCommand ==
    /\ out.kind = "cmd"
    /\ out.proxies # None
    /\ out.proxies[1].http = None
    /\ out.proxies[1].https = None

(* C17: a build command composed from a ProxyConfig that has neither http  *)
(* nor https passes three empty proxy arguments to the build script, as a  *)
(* command composed without any proxy config does, whatever no_proxy is.   *)
C17_FalsyProxyIsUnset ==
    FalsyProxyCommand =>
        /\ ProxyArgs(out.cmd) = <<EmptyText, EmptyText, EmptyText>>
        /\ \A runner_info \in RunnerApplications :
               ProxyArgs(out.cmd) = ProxyArgs(build_image_command(runner_info, None))

C17_Witness ==
    /\ FalsyProxyCommand
    /\ out.proxies[1].no_proxy # None
    /\ out.cmd[6] = EmptyText

(* The value a call of the JSON composition was given for a key. *)
GivenValue(key) ==
    CASE key = "httpProxy" -> out.http_proxy
      [] key = "httpsProxy" -> out.https_proxy
      [] key = "noProxy" -> out.no_proxy

(* C19: the document holds under proxies.default exactly the keys whose    *)
(* given value is non-empty, each with that value; with three empty values *)
(* proxies.default is the empty object.                                    *)
C19_OnlyNonEmptyKeys ==
    out.kind = "json" =>
        /\ DOMAIN out.doc = {"proxies"}
        /\ DOMAIN out.doc.proxies = {"default"}
        /\ DOMAIN out.doc.proxies.default =
               {key \in ProxyKeys : GivenValue(key) # EmptyText}
        /\ \A key \in DOMAIN out.doc.proxies.default :
               out.doc.proxies.default[key] = GivenValue(key)
        /\ (\A key \in ProxyKeys : GivenValue(key) = EmptyText)
               => DOMAIN out.doc.proxies.default = {}

C19_Witness ==
    /\ out.kind = "json"
    /\ out.http_proxy # EmptyText
    /\ out.https_proxy = EmptyText
    /\ out.no_proxy # EmptyText
    /\ DOMAIN out.doc.proxies.default = {"httpProxy", "noProxy"}

NonEmptyList(ssh_debug_connections) ==
    ssh_debug_connections # None /\ ssh_debug_connections[1] # <<>>

(* C18: an environment rendered from a non-empty list of SSH debug         *)
(* connections uses one connection, an element of the list, and a call     *)
(* can select each element of the list it is given; rendered from an       *)
(* empty or absent list it uses none.                                      *)
C18_OneConnectionOfTheList ==
    /\ out.kind = "env" =>
           IF NonEmptyList(out.ssh_debug_connections)
           THEN /\ out.ssh_debug_info # None
                /\ \E i \in DOMAIN out.ssh_debug_connections[1] :
                       out.ssh_debug_info = Some(out.ssh_debug_connections[1][i])
           ELSE out.ssh_debug_info = None
    /\ \A ssh_debug_connections \in ConnectionInputs :
           NonEmptyList(ssh_debug_connections) =>
               \A i \in DOMAIN ssh_debug_connections[1] :
                   ENABLED (\E proxies \in EnvProxyInputs,
                               dockerhub_mirror \in MirrorInputs :
                       /\ generate_runner_env(proxies, dockerhub_mirror,
                                              ssh_debug_connections)
                       /\ out'.ssh_debug_info = Some(ssh_debug_connections[1][i]))

C18_Witness ==
    /\ out.kind = "env"
    /\ NonEmptyList(out.ssh_debug_connections)
    /\ Len(out.ssh_debug_connections[1]) > 1
    /\ out.ssh_debug_info = Some(out.ssh_debug_connections[1][2])
    /\ out.ssh_debug_connections[1][1] # out.ssh_debug_connections[1][2]

----------------------------------------------------------------------------
(* The create_server requests of the current call carry the name, the      *)
(* image and the registration token the InstanceConfig had at the call.    *)
RequestsUseTheConfig ==
    \A i \in DOMAIN ci_log :
        /\ ci_log[i].name = ci_config0.name
        /\ ci_log[i].image = ci_config0.openstack_image
        /\ ci_log[i].userdata.token = ci_config0.registration_token
        /\ ci_log[i].userdata.instance_name = ci_config0.name

(* C20: every create_server request of one create_instance call carries    *)
(* the name, image and registration token of the InstanceConfig passed in, *)
(* no execution of the body asks the issuer for a token, and the           *)
(* InstanceConfig object is unchanged during the call and on return.       *)
C20_SameConfigEveryAttempt ==
    /\ [](ci_pc \in {"running", "done"} =>
             RequestsUseTheConfig /\ ci_config = ci_config0)
    /\ [][ci_tries' = ci_tries + 1 =>
             issued' = issued /\ ci_config' = ci_config]_vars

C20_Witness ==
    /\ ci_pc = "done"
    /\ Len(ci_log) = Tries
    /\ ci_result = "InstanceLaunchError"
    /\ ci_config0.registration_token = 2
    /\ ci_log[1].userdata.token = 2
    /\ ci_log[Tries].userdata.token = 2

----------------------------------------------------------------------------
(* The servers carrying the name of the current call that the cloud holds  *)
(* because of the call's own requests.                                     *)
ServersOfTheCall == {srv \in ci_servers : srv.name = ci_config0.name}

(* C21: when a create_instance call has returned, with success or with     *)
(* the failure of its last try, the cloud holds at most one server that    *)
(* carries the call's instance name.                                       *)
C21_AtMostOneServer ==
    ci_pc = "done" => Cardinality(ServersOfTheCall) <= 1

====
